---------------------------- MODULE Spec2Model ----------------------------
(***************************************************************************)
(* Model of pid_demo.py: the class PIDResponseGraph, its fixed-step PID    *)
(* simulation (simulate_pid_response) and the callbacks of its user        *)
(* interface (gain sliders, time slider, play button, animation timer).    *)
(*                                                                         *)
(* Numbers.  The program computes with Python floats.  The model computes  *)
(* with exact decimal numbers of unbounded length (sign, limbs in base     *)
(* 10^4, number of fractional limbs), so that +, -, * and the divisions by *)
(* the time step are exact and no rounding of IEEE arithmetic is modelled: *)
(* an equality of the model is an equality of real numbers.                *)
(***************************************************************************)
EXTENDS Integers, Sequences, FiniteSets, TLC

(***************************************************************************)
(* Evaluation order.  Python evaluates the right-hand side of an           *)
(* assignment once and binds the value to the name; Bind(v, F) is F        *)
(* applied to the value of v, evaluated once.                              *)
(***************************************************************************)
Bind(v, F(_)) == CHOOSE r \in {F(x) : x \in {v}} : TRUE
Bind2(v, w, F(_, _)) == CHOOSE r \in {F(x, y) : x \in {v}, y \in {w}} : TRUE
Bind3(u, v, w, F(_, _, _)) ==
    CHOOSE r \in {F(x, y, z) : x \in {u}, y \in {v}, z \in {w}} : TRUE
Bind4(t, u, v, w, F(_, _, _, _)) ==
    CHOOSE r \in {F(a, x, y, z) : a \in {t}, x \in {u}, y \in {v}, z \in {w}} :
        TRUE

(***************************************************************************)
(* Exact decimal arithmetic (the float operations of lines 83-101, 117-142 *)
(* and 186).  A number is [neg, m, e]: m is the magnitude as limbs, least  *)
(* significant first, and e the number of limbs after the decimal point.   *)
(***************************************************************************)
Base == 10 * 1000

Limb(a) == IF a = <<>> THEN 0 ELSE Head(a)
Rest(a) == IF a = <<>> THEN a ELSE Tail(a)
Min(i, j) == IF i < j THEN i ELSE j

RECURSIVE Zeros(_)
Zeros(k) == IF k <= 0 THEN <<>> ELSE <<0>> \o Zeros(k - 1)

\* the position of the highest limb that is not 0 (0 when there is none)
TopLimb(m) ==
    CHOOSE k \in 0..Len(m) :
        /\ k = 0 \/ m[k] # 0
        /\ \A j \in (k + 1)..Len(m) : m[j] = 0

\* the number of fractional limbs, of at most e, that are 0 at the low end
LowZeros(m, e) ==
    CHOOSE z \in 0..Min(e, Len(m)) :
        /\ \A j \in 1..z : m[j] = 0
        /\ z = Min(e, Len(m)) \/ m[z + 1] # 0

\* the number in its one form: no 0 limb on top, none after the point at
\* the low end, and 0 as [FALSE, <<>>, 0]
NormV(neg, m, e) ==
    LET k == TopLimb(m)
        z == LowZeros(m, e)
    IN  IF k = 0 THEN [neg |-> FALSE, m |-> <<>>, e |-> 0]
        ELSE [neg |-> neg, m |-> SubSeq(m, z + 1, k), e |-> e - z]

Norm(neg, m, e) == Bind3(neg, m, e, NormV)

RECURSIVE MagAdd(_, _, _)
MagAdd(a, b, c) ==
    IF a = <<>> /\ b = <<>> THEN (IF c = 0 THEN <<>> ELSE <<c>>)
    ELSE Bind(Limb(a) + Limb(b) + c,
              LAMBDA s : <<s % Base>>
                         \o Bind3(Rest(a), Rest(b), s \div Base, MagAdd))

\* a - b - c for magnitudes with a >= b + c
RECURSIVE MagSub(_, _, _)
MagSub(a, b, c) ==
    IF a = <<>> THEN <<>>
    ELSE Bind(Head(a) - Limb(b) - c,
              LAMBDA s : <<s % Base>>
                         \o Bind3(Tail(a), Rest(b), IF s < 0 THEN 1 ELSE 0,
                                  MagSub))

\* -1, 0, 1 as magnitude a is below, equal to, above magnitude b, both with
\* no 0 limb on top
MagCmp(a, b) ==
    IF Len(a) < Len(b) THEN -1
    ELSE IF Len(a) > Len(b) THEN 1
    ELSE IF a = b THEN 0
    ELSE LET k == CHOOSE i \in 1..Len(a) :
                      a[i] # b[i] /\ \A j \in (i + 1)..Len(a) : a[j] = b[j]
         IN  IF a[k] < b[k] THEN -1 ELSE 1

RECURSIVE MagMulSmall(_, _, _)
MagMulSmall(a, k, c) ==
    IF a = <<>> THEN (IF c = 0 THEN <<>> ELSE <<c>>)
    ELSE Bind(Head(a) * k + c,
              LAMBDA s : <<s % Base>>
                         \o Bind3(Tail(a), k, s \div Base, MagMulSmall))

\* a * b, one limb of b at a time
RECURSIVE MagMulBy(_, _)
MagMulBy(a, b) ==
    IF b = <<>> THEN <<>>
    ELSE IF Len(b) = 1 THEN MagMulSmall(a, b[1], 0)
    ELSE Bind2(MagMulSmall(a, Head(b), 0),
               <<0>> \o Bind2(a, Tail(b), MagMulBy),
               LAMBDA p, q : MagAdd(p, q, 0))

MagMul(a, b) == IF Len(a) >= Len(b) THEN MagMulBy(a, b) ELSE MagMulBy(b, a)

\* the quotient of magnitude a (limbs i..1 still to do, remainder r) by limb k
RECURSIVE MagDivSmall(_, _, _, _)
MagDivSmall(a, k, i, r) ==
    IF i = 0 THEN <<>>
    ELSE Bind(r * Base + a[i],
              LAMBDA cur : Bind4(a, k, i - 1, cur % k, MagDivSmall)
                           \o <<cur \div k>>)

\* the integer n, for |n| < Base
DInt(n) == NormV(n < 0, <<IF n < 0 THEN -n ELSE n>>, 0)

NegV(a) == IF a.m = <<>> THEN a ELSE [a EXCEPT !.neg = ~a.neg]

AddV(a, b) ==
    LET e  == IF a.e > b.e THEN a.e ELSE b.e
        am == Zeros(e - a.e) \o a.m
        bm == Zeros(e - b.e) \o b.m
    IN  IF a.m = <<>> THEN b
        ELSE IF b.m = <<>> THEN a
        ELSE IF a.neg = b.neg THEN Norm(a.neg, Bind3(am, bm, 0, MagAdd), e)
        ELSE Bind(Bind2(am, bm, MagCmp),
                  LAMBDA c :
                      IF c = 0 THEN DInt(0)
                      ELSE IF c > 0
                      THEN Norm(a.neg, Bind3(am, bm, 0, MagSub), e)
                      ELSE Norm(b.neg, Bind3(bm, am, 0, MagSub), e))

MulV(a, b) == Norm(a.neg # b.neg, Bind2(a.m, b.m, MagMul), a.e + b.e)

(***************************************************************************)
(* a / b for a divisor b # 0 of one limb (the time step, or twice it).     *)
(* The quotient is carried DivLimbs limbs past the dividend's last one,    *)
(* which is exact for every one-limb divisor with no prime factor but 2    *)
(* and 5 (1, 2, 0.5, 0.01, ...), the only divisors the model draws.        *)
(***************************************************************************)
DivLimbs == 2 + 2

DivV(a, b) ==
    LET am == Zeros(DivLimbs) \o a.m
        sh == a.e + DivLimbs - b.e
    IN  Bind(Bind4(am, b.m[1], Len(am), 0, MagDivSmall),
             LAMBDA q : IF sh >= 0 THEN Norm(a.neg # b.neg, q, sh)
                        ELSE Norm(a.neg # b.neg, Zeros(-sh) \o q, 0))

\* the integer part of a as an integer (Python's int(): towards zero)
RECURSIVE MagToInt(_, _)
MagToInt(m, i) == IF i > Len(m) THEN 0 ELSE m[i] + Base * MagToInt(m, i + 1)

TruncV(a) == LET n == MagToInt(a.m, a.e + 1) IN IF a.neg THEN -n ELSE n

\* the least integer >= a
CeilV(a) == IF a.e > 0 /\ ~a.neg THEN TruncV(a) + 1 ELSE TruncV(a)

\* the operations, each on the values of its operands
DNeg(a)    == Bind(a, NegV)
DAdd(a, b) == Bind2(a, b, AddV)
DSub(a, b) == Bind2(a, DNeg(b), AddV)
DMul(a, b) == Bind2(a, b, MulV)
DDiv(a, b) == Bind2(a, b, DivV)
DTrunc(a)  == Bind(a, TruncV)
DCeil(a)   == Bind(a, CeilV)
IsZero(a)  == a.m = <<>>
DLt(a, b)  == DSub(a, b).neg
DLe(a, b)  == ~DLt(b, a)

\* n / 10^k for 0 <= k <= 4 and |n| < 10^4
DFrac(n, k) ==
    LET w == (IF n < 0 THEN -n ELSE n) * 10^(4 - k)
    IN  NormV(n < 0, <<w % Base, w \div Base>>, 1)

Tenth == DFrac(1, 1)
Half  == DFrac(5, 1)

(***************************************************************************)
(* The object.  self is the PIDResponseGraph instance: one field per       *)
(* attribute the methods read or write (a widget is the value it holds).   *)
(* Three fields are not attributes: raised, the exception the last call    *)
(* let escape ("none" when it returned), simulated, whether the last call  *)
(* ran simulate_pid_response, and frames, the local variables of           *)
(* simulate_pid_response at the end of each iteration of its last run.     *)
(***************************************************************************)
VARIABLES
    self,       \* the PIDResponseGraph instance
    duration,   \* the duration argument of simulate_pid_response
    dt,         \* the dt argument of simulate_pid_response
    op,         \* the method that ran last, with its argument
    hist        \* history: the trace of the first simulation (first),
                \* whether a simulation with other gains has run since
                \* (other), and whether the last callback was a tick that
                \* ended the playback (ended)

vars == <<self, duration, dt, op, hist>>

\* __init__, lines 9-19, for the given controller parameters
Fields(setpoint, Kp, Ki, Kd) ==
    [ _errors |-> <<>>, _integrals |-> <<>>, _derivatives |-> <<>>,
      _values |-> <<>>, _t |-> <<>>,
      _setpoint |-> setpoint, _Kp |-> Kp, _Ki |-> Ki, _Kd |-> Kd,
      raised |-> "none", simulated |-> FALSE, frames |-> <<>> ]

Trace(s) == <<s._t, s._values, s._errors, s._integrals>>

Raise(s, kind) == [s EXCEPT !.raised = kind]

(***************************************************************************)
(* simulate_pid_response, lines 82-111.                                    *)
(***************************************************************************)
\* (a variant: the length rounded down)
ArangeLenFloor(stop, step) ==
    Bind(DTrunc(DDiv(stop, step)), LAMBDA n : IF n > 0 THEN n ELSE 0)

\* the length of np.arange(0, stop, step): ceil(stop / step), at least 0
ArangeLen(stop, step) ==
    Bind(DCeil(DDiv(stop, step)), LAMBDA n : IF n > 0 THEN n ELSE 0)

\* np.arange(0, stop, step): the values 0 + i * step, for i from n on
RECURSIVE ArangeFrom(_, _, _)
ArangeFrom(i, n, step) ==
    IF i >= n THEN <<>>
    ELSE <<DMul(DInt(i), step)>> \o Bind3(i + 1, n, step, ArangeFrom)

Arange(stop, step) == Bind3(0, ArangeLen(stop, step), step, ArangeFrom)

\* (a variant: the integral kept from the run before)
LocalsInitCarried(s) ==
    [ x |-> DInt(0), v |-> DInt(0),
      integral |-> IF s._integrals = <<>> THEN DInt(0)
                   ELSE s._integrals[Len(s._integrals)],
      previous_error |-> DInt(0),
      values |-> <<>>, errors |-> <<>>, integrals |-> <<>>, frames |-> <<>> ]

\* lines 84-88: the locals before the loop
LocalsInit(s) ==
    [ x |-> DInt(0), v |-> DInt(0), integral |-> DInt(0),
      previous_error |-> DInt(0),
      values |-> <<>>, errors |-> <<>>, integrals |-> <<>>, frames |-> <<>> ]

\* (a variant: the error accumulated without the time step)
IntegrateNoStep(integral, error, step) == DAdd(integral, error)

\* line 92
Integrate(integral, error, step) == DAdd(integral, DMul(error, step))

\* (a variant: the difference taken the other way round)
DerivativeSwapped(error, previous_error, step) ==
    DDiv(DSub(previous_error, error), step)

\* line 93
Derivative(error, previous_error, step) ==
    DDiv(DSub(error, previous_error), step)

\* line 94
Control(s, error, integral, derivative) ==
    DAdd(DAdd(DMul(s._Kp, error), DMul(s._Ki, integral)),
         DMul(s._Kd, derivative))

\* (a variant: the position updated with the velocity of this step)
PlantStepNewVelocity(x, v, u, step) ==
    LET dv == DAdd(DSub(DNeg(x), DMul(Tenth, v)), u)
        v1 == DAdd(v, DMul(dv, step))
    IN  [x |-> DAdd(x, DMul(v1, step)), v |-> v1]

\* (a variant: the plant without its damping term)
PlantStepNoDamping(x, v, u, step) ==
    LET dx == v
        dv == DAdd(DNeg(x), u)
    IN  [x |-> DAdd(x, DMul(dx, step)), v |-> DAdd(v, DMul(dv, step))]

\* lines 98-101: the plant's position and velocity after one Euler step
PlantStep(x, v, u, step) ==
    LET dx == v
        dv == DAdd(DSub(DNeg(x), DMul(Tenth, v)), u)
    IN  [x |-> DAdd(x, DMul(dx, step)), v |-> DAdd(v, DMul(dv, step))]

\* (a variant: the control output computed before the integral is updated)
SimStepStaleIntegral(s, loc, step) ==
    Bind(DSub(s._setpoint, loc.x), LAMBDA error :
    Bind2(Integrate(loc.integral, error, step),
          Derivative(error, loc.previous_error, step),
          LAMBDA integral, derivative :
    Bind(Control(s, error, loc.integral, derivative), LAMBDA u :
    Bind(PlantStep(loc.x, loc.v, u, step), LAMBDA p :
        [ x |-> p.x, v |-> p.v, integral |-> integral,
          previous_error |-> error,
          values |-> Append(loc.values, p.x),
          errors |-> Append(loc.errors, error),
          integrals |-> Append(loc.integrals, integral),
          frames |-> Append(loc.frames,
                            [ error |-> error, integral |-> integral,
                              derivative |-> derivative, u |-> u,
                              x |-> p.x, v |-> p.v ]) ]))))

\* lines 91-106: one iteration of the loop
SimStep(s, loc, step) ==
    Bind(DSub(s._setpoint, loc.x), LAMBDA error :
    Bind2(Integrate(loc.integral, error, step),
          Derivative(error, loc.previous_error, step),
          LAMBDA integral, derivative :
    Bind(Control(s, error, integral, derivative), LAMBDA u :
    Bind(PlantStep(loc.x, loc.v, u, step), LAMBDA p :
        [ x |-> p.x, v |-> p.v, integral |-> integral,
          previous_error |-> error,
          values |-> Append(loc.values, p.x),
          errors |-> Append(loc.errors, error),
          integrals |-> Append(loc.integrals, integral),
          frames |-> Append(loc.frames,
                            [ error |-> error, integral |-> integral,
                              derivative |-> derivative, u |-> u,
                              x |-> p.x, v |-> p.v ]) ]))))

\* line 90: the loop, run until n iterations are done
RECURSIVE SimLoop(_, _, _, _)
SimLoop(s, loc, n, step) ==
    IF Len(loc.values) >= n THEN loc
    ELSE Bind4(s, SimStep(s, loc, step), n, step, SimLoop)

simulate_pid_response(s, stop, step) ==
    IF IsZero(step)
    THEN Raise([s EXCEPT !.simulated = TRUE], "ZeroDivisionError")   \* np.arange, line 83: a step of 0
                                         \* (a float 0.0 gives a ValueError)
    ELSE Bind(Arange(stop, step), LAMBDA t :
         Bind(Bind4(s, LocalsInit(s), Len(t), step, SimLoop), LAMBDA loc :
             [s EXCEPT !._t = t, !._values = loc.values,
                       !._errors = loc.errors, !._integrals = loc.integrals,
                       !.frames = loc.frames, !.simulated = TRUE]))

(***************************************************************************)
(* The plot and the widgets, lines 28-80.  A step that follows a call that *)
(* raised does not run: the exception leaves the method.                   *)
(***************************************************************************)
\* lines 28-52: the artists, as the data each holds
_init_plots(s) ==
    s @@ [ _output_line |-> s._values, _time_marker |-> DInt(0),
           _tangent_line |-> <<>>, _integral_area |-> 0,
           _value_text |-> <<>> ]

\* lines 64-71: the gain sliders and the time slider (each as its val), the
\* button (as its label) and the playback state
Widgets(s) ==
    [ _slider_kp |-> s._Kp, _slider_ki |-> s._Ki, _slider_kd |-> s._Kd,
      _slider_time |-> DInt(0), _btn_play |-> "Play",
      _is_playing |-> FALSE, _frame_idx |-> 0 ]

\* lines 54-80; line 67 reads _t[-1] and _t[1] for the time slider's range
_init_ui(s) ==
    IF Len(s._t) < 2 THEN Raise(s, "IndexError")
    ELSE s @@ Widgets(s) @@ [ _slider_time_valmax |-> s._t[Len(s._t)],
                              _slider_time_valstep |-> s._t[2] ]

\* line 121 and line 139: idx is neither the first nor the last sample
Interior(s, idx) == idx > 0 /\ idx < Len(s._t) - 1

\* lines 113-158; idx counts from 0 as in the program, sequences from 1.
\* _value_text holds the six numbers the text shows (before formatting),
\* _tangent_line its two points, _integral_area the number of samples
\* t[:idx+1] it spans.
_update_data(s, idx) ==
    LET error  == s._errors[idx + 1]
        h2     == DMul(DInt(2), DSub(s._t[2], s._t[1]))
        tx     == s._t[idx + 1]
        x_tangent == <<DSub(tx, Half), DAdd(tx, Half)>>
    IN  Bind2(IF Interior(s, idx)
              THEN DDiv(DSub(s._errors[idx + 2], s._errors[idx]), h2)
              ELSE DInt(0),
              IF Interior(s, idx)
              THEN DDiv(DSub(s._values[idx + 2], s._values[idx]), h2)
              ELSE DInt(0),
              LAMBDA derivative, slope :
        [s EXCEPT
            !._value_text =
                [ error |-> error, integral |-> s._integrals[idx + 1],
                  derivative |-> derivative,
                  p_term |-> DMul(s._slider_kp, error),
                  i_term |-> DMul(s._slider_ki, s._integrals[idx + 1]),
                  d_term |-> DMul(s._slider_kd, derivative) ],
            !._tangent_line =
                IF Interior(s, idx)
                THEN << x_tangent,
                        << DAdd(s._values[idx + 1],
                                DMul(slope, DSub(x_tangent[1], tx))),
                           DAdd(s._values[idx + 1],
                                DMul(slope, DSub(x_tangent[2], tx))) >> >>
                ELSE <<>>,
            !._integral_area = idx + 1])

\* lines 186-187: the sample a time value selects
SampleIndex(s, val) ==
    Bind(DTrunc(DDiv(val, DSub(s._t[2], s._t[1]))), LAMBDA idx :
        Min(IF idx > 0 THEN idx ELSE 0, Len(s._t) - 1))

\* the default arguments of simulate_pid_response, line 82: dt = 0.01, and
\* a duration of NSamples steps in place of the program's 10.0 (1000 steps)
NSamples == 12
DefaultDt == DFrac(1, 2)
DefaultDuration == DMul(DInt(NSamples), DefaultDt)

\* (a variant: the trace recomputed before the sample is looked up)
OnTimeChangeResimulating(s, val) ==
    Bind(simulate_pid_response(s, DefaultDuration, DefaultDt), LAMBDA s1 :
        IF s1.raised # "none" THEN s1
        ELSE IF Len(s1._t) < 2 THEN Raise(s1, "IndexError")
        ELSE Bind(SampleIndex(s1, val), LAMBDA idx :
                 [_update_data(s1, idx) EXCEPT !._time_marker = val]))

\* lines 185-190; line 186 reads _t[1] and _t[0]
_on_time_change(s, val) ==
    IF Len(s._t) < 2 THEN Raise(s, "IndexError")
    ELSE Bind(SampleIndex(s, val), LAMBDA idx :
             [_update_data(s, idx) EXCEPT !._time_marker = val])

\* (a variant: the simulation run before the sliders are read)
UpdatePlotStaleGains(s) ==
    Bind(simulate_pid_response(s, DefaultDuration, DefaultDt), LAMBDA s1 :
        IF s1.raised # "none" THEN s1
        ELSE Bind([s1 EXCEPT !._Kp = s._slider_kp, !._Ki = s._slider_ki,
                             !._Kd = s._slider_kd,
                             !._output_line = s1._values,
                             !._slider_time_valmax = s1._t[Len(s1._t)],
                             !._integral_area = 0], LAMBDA s2 :
                 _on_time_change(s2, s2._slider_time)))

\* lines 160-183
_update_plot(s) ==
    Bind(simulate_pid_response(
             [s EXCEPT !._Kp = s._slider_kp, !._Ki = s._slider_ki,
                       !._Kd = s._slider_kd],
             DefaultDuration, DefaultDt), LAMBDA s1 :
        IF s1.raised # "none" THEN s1
        ELSE Bind([s1 EXCEPT !._output_line = s1._values,
                             !._slider_time_valmax = s1._t[Len(s1._t)],
                             !._integral_area = 0], LAMBDA s2 :
                 _on_time_change(s2, s2._slider_time)))

\* (a variant: the play command that starts from the first sample again)
TogglePlayRewinding(s) ==
    [s EXCEPT !._is_playing = ~s._is_playing,
              !._frame_idx = IF ~s._is_playing THEN 0 ELSE s._frame_idx,
              !._btn_play = IF ~s._is_playing THEN "Pause" ELSE "Play"]

\* lines 192-194
_toggle_play(s) ==
    [s EXCEPT !._is_playing = ~s._is_playing,
              !._btn_play = IF ~s._is_playing THEN "Pause" ELSE "Play"]

\* Slider.set_val, called at line 200: the slider takes the value and calls
\* the callback registered at line 77
SetTime(s, val) ==
    Bind([s EXCEPT !._slider_time = val], LAMBDA s1 : _on_time_change(s1, val))

\* the step of the playback position, line 201
FrameStep == 10

\* (a variant: the tick that stops at the end and leaves the button as it is)
AnimateKeepsLabel(s) ==
    IF s._is_playing
    THEN LET idx == s._frame_idx
         IN  IF idx < Len(s._t) - 1
             THEN Bind(SetTime(s, s._t[idx + 1]), LAMBDA s1 :
                      IF s1.raised # "none" THEN s1
                      ELSE [s1 EXCEPT !._frame_idx = idx + FrameStep])
             ELSE [s EXCEPT !._is_playing = FALSE, !._frame_idx = 0]
    ELSE s

\* (a variant: the tick that moves on by one sample)
AnimateSingleStep(s) ==
    IF s._is_playing
    THEN LET idx == s._frame_idx
         IN  IF idx < Len(s._t) - 1
             THEN Bind(SetTime(s, s._t[idx + 1]), LAMBDA s1 :
                      IF s1.raised # "none" THEN s1
                      ELSE [s1 EXCEPT !._frame_idx = idx + 1])
             ELSE [s EXCEPT !._is_playing = FALSE, !._frame_idx = 0,
                            !._btn_play = "Play"]
    ELSE s

\* (a variant: the tick that shows the sample but stays on it)
AnimateNoAdvance(s) ==
    IF s._is_playing
    THEN LET idx == s._frame_idx
         IN  IF idx < Len(s._t) - 1
             THEN SetTime(s, s._t[idx + 1])
             ELSE [s EXCEPT !._is_playing = FALSE, !._frame_idx = 0,
                            !._btn_play = "Play"]
    ELSE s

\* (a variant: the tick not guarded by the play state)
AnimateUnguarded(s) ==
    LET idx == s._frame_idx
    IN  IF idx < Len(s._t) - 1
        THEN Bind(SetTime(s, s._t[idx + 1]), LAMBDA s1 :
                 IF s1.raised # "none" THEN s1
                 ELSE [s1 EXCEPT !._frame_idx = idx + FrameStep])
        ELSE [s EXCEPT !._is_playing = FALSE, !._frame_idx = 0,
                       !._btn_play = "Play"]

\* lines 196-205
_animate(s) ==
    IF s._is_playing
    THEN LET idx == s._frame_idx
         IN  IF idx < Len(s._t) - 1
             THEN Bind(SetTime(s, s._t[idx + 1]), LAMBDA s1 :
                      IF s1.raised # "none" THEN s1
                      ELSE [s1 EXCEPT !._frame_idx = idx + FrameStep])
             ELSE [s EXCEPT !._is_playing = FALSE, !._frame_idx = 0,
                            !._btn_play = "Play"]
    ELSE s

\* lines 7-26: the constructor, up to plt.show()
InitKp == DInt(4)
InitKi == DInt(0)
InitKd == DInt(0)
InitSetpoint == DInt(1)

FirstRun == simulate_pid_response(
                Fields(InitSetpoint, InitKp, InitKi, InitKd),
                DefaultDuration, DefaultDt)

Constructed ==
    Bind(FirstRun, LAMBDA s1 :
    Bind(_init_plots(s1), LAMBDA s2 :
    Bind(_init_ui(s2), LAMBDA s3 : _update_plot(s3))))

(***************************************************************************)
(* The program: the window is shown and the event loop runs the callbacks  *)
(* one at a time, each to completion.                                      *)
(***************************************************************************)
\* a call starts with no exception pending and no simulation run
Called(s) == [s EXCEPT !.raised = "none", !.simulated = FALSE]

Moved(s) == hist.other \/ <<s._Kp, s._Ki, s._Kd>> # <<InitKp, InitKi, InitKd>>

Init == /\ self = Constructed
        /\ duration = DefaultDuration
        /\ dt = DefaultDt
        /\ op = <<"__init__">>
        /\ hist = [first |-> Trace(FirstRun), other |-> FALSE,
                   ended |-> FALSE]

\* A slider that is dragged calls its callback when its value changes.
\* The values a gain slider is dragged to (Kp in 0..10, Ki and Kd in 0..5):
KpVals == {DInt(0), DInt(4)}
KiVals == {DInt(0), DInt(1)}
KdVals == {DInt(0), DInt(1)}

\* the samples the time slider is dragged to: it snaps to the multiples of
\* its valstep _t[1] between 0 and its valmax
TimeSamples == {0, 1, FrameStep, Len(self._t) - 1}

\* the callback name has turned Playing into Stopped at line 203
Ended(s, name) == name = <<"_animate">> /\ self._is_playing /\ ~s._is_playing

Finish(s, name) ==
    /\ self' = s
    /\ op' = name
    /\ hist' = [hist EXCEPT !.other = Moved(s), !.ended = Ended(s, name)]
    /\ UNCHANGED <<duration, dt>>

KpChanged ==
    \E val \in KpVals :
        /\ val # self._slider_kp
        /\ \E s \in {_update_plot([Called(self) EXCEPT !._slider_kp = val])} :
               Finish(s, <<"_update_plot">>)

KiChanged ==
    \E val \in KiVals :
        /\ val # self._slider_ki
        /\ \E s \in {_update_plot([Called(self) EXCEPT !._slider_ki = val])} :
               Finish(s, <<"_update_plot">>)

KdChanged ==
    \E val \in KdVals :
        /\ val # self._slider_kd
        /\ \E s \in {_update_plot([Called(self) EXCEPT !._slider_kd = val])} :
               Finish(s, <<"_update_plot">>)

TimeChanged ==
    \E i \in TimeSamples :
        \E val \in {DMul(DInt(i), self._slider_time_valstep)} :
            /\ DLe(val, self._slider_time_valmax)
            /\ val # self._slider_time
            /\ \E s \in {SetTime(Called(self), val)} :
                   Finish(s, <<"_on_time_change">>)

PlayClicked ==
    \E s \in {_toggle_play(Called(self))} : Finish(s, <<"_toggle_play">>)

TimerTick ==
    \E s \in {_animate(Called(self))} : Finish(s, <<"_animate">>)

Next == \/ KpChanged
        \/ KiChanged
        \/ KdChanged
        \/ TimeChanged
        \/ PlayClicked
        \/ TimerTick

Spec == Init /\ [][Next]_vars

(***************************************************************************)
(* The program with its timer running and a user who starts the playback   *)
(* but does not pause it: the timer of FuncAnimation (line 80) fires again *)
(* and again, so a tick that would change the state is taken in the end.   *)
(***************************************************************************)
PlayCommand == ~self._is_playing /\ PlayClicked

PlayNext == \/ KpChanged
            \/ KiChanged
            \/ KdChanged
            \/ TimeChanged
            \/ PlayCommand
            \/ TimerTick

PlaySpec == Init /\ [][PlayNext]_vars /\ WF_vars(TimerTick)

(***************************************************************************)
(* The simulation and the sample lookup on their own: an object with the   *)
(* given controller parameters, on which simulate_pid_response(duration,   *)
(* dt) and then the time-change handler are called with given arguments.   *)
(***************************************************************************)
MaxDuration == 3

SimGains     == {DInt(0), DInt(1)}
SimSetpoints == {DInt(-1), DInt(0), DInt(1)}
SimDurations == {DInt(d) : d \in -1..MaxDuration}
SimSteps     == {DInt(-1), DInt(0), Half, DInt(1), DInt(2)}
SimTimes     == {DInt(-1), DInt(0), DefaultDt, DFrac(15, 3), Half, DInt(1),
                 DFrac(15, 1), DInt(2), DInt(MaxDuration + 2)}

\* the pairs (duration, dt) drawn: all of the above, and the default step
\* 0.01 with durations of 0, 0.03 and 0.025
SimConfigs ==
    (SimDurations \X SimSteps)
        \cup ({DInt(0), DFrac(3, 2), DFrac(25, 3)} \X {DefaultDt})

SimInit ==
    /\ \E sp \in SimSetpoints, kp \in SimGains, ki \in SimGains,
          kd \in SimGains :
           \E s \in {_init_plots(Fields(sp, kp, ki, kd))} :
               self = s @@ Widgets(s)
    /\ \E c \in SimConfigs : duration = c[1] /\ dt = c[2]
    /\ op = <<"new">>
    /\ hist = [first |-> Trace(Fields(0, 0, 0, 0)), other |-> FALSE,
               ended |-> FALSE]

CallSimulate ==
    /\ op = <<"new">>
    /\ \E s \in {simulate_pid_response(Called(self), duration, dt)} :
           self' = s
    /\ op' = <<"simulate_pid_response">>
    /\ UNCHANGED <<duration, dt, hist>>

CallTimeChange ==
    /\ op = <<"simulate_pid_response">>
    /\ self.raised = "none"
    /\ \E val \in SimTimes :
           /\ \E s \in {_on_time_change(Called(self), val)} : self' = s
           /\ op' = <<"_on_time_change", val>>
    /\ UNCHANGED <<duration, dt, hist>>

SimNext == CallSimulate \/ CallTimeChange

SimSpec == SimInit /\ [][SimNext]_vars

(***************************************************************************)
(* Properties of the simulation (under SimSpec).                           *)
(***************************************************************************)
\* simulate_pid_response has just been called with (duration, dt)
Simulated == op = <<"simulate_pid_response">>

\* a valid configuration: dt > 0 and duration > 0
ValidConfig == DLt(DInt(0), dt) /\ DLt(DInt(0), duration)

\* the call returned and holds the trace it stored
Returned == Simulated /\ self.raised = "none"

N == Len(self._t)

NoTrace == <<<<>>, <<>>, <<>>, <<>>>>

ZeroGains == /\ self._Kp = DInt(0)
             /\ self._Ki = DInt(0)
             /\ self._Kd = DInt(0)

\* C1: simulate_pid_response called with dt <= 0 or duration <= 0 fails
\* with the error kind InvalidConfig before any iteration of the loop has
\* run, and stores no trace.
C1_InvalidConfigRejected ==
    (Simulated /\ ~ValidConfig) =>
        /\ self.raised = "InvalidConfig"
        /\ self.frames = <<>>
        /\ Trace(self) = NoTrace

\* C1, what the program does instead: a step of 0 is the only argument that
\* makes the call fail (in np.arange); every other invalid configuration
\* returns, with an empty trace unless both arguments are negative.
C1_ProgramOnInvalidConfig ==
    (Simulated /\ ~ValidConfig) =>
        /\ self.raised = (IF IsZero(dt) THEN "ZeroDivisionError" ELSE "none")
        /\ (DLt(dt, DInt(0)) /\ DLt(duration, DInt(0))) <=> N > 0

\* C2: for a valid configuration the four sequences of the trace have the
\* same length N = ceil(duration / dt) (the N with (N-1)*dt < duration <=
\* N*dt), and t starts at 0 and rises by dt (t[i] = i*dt); and the stored
\* sequences have the same length in every state.
C2_TraceShape ==
    /\ Len(self._values) = N
    /\ Len(self._errors) = N
    /\ Len(self._integrals) = N
    /\ (Simulated /\ ValidConfig) =>
           /\ self.raised = "none"
           /\ N >= 1
           /\ DLe(duration, DMul(DInt(N), dt))
           /\ DLt(DMul(DInt(N - 1), dt), duration)
           /\ self._t[1] = DInt(0)
           /\ \A i \in 1..(N - 1) : self._t[i + 1] = DAdd(self._t[i], dt)

\* a trace of several samples whose length is not duration / dt
C2_Witness ==
    /\ Simulated /\ ValidConfig
    /\ N >= 2
    /\ DMul(DInt(N), dt) # duration

Scenario ==
    /\ dt = DInt(1) /\ duration = DInt(2)
    /\ self._setpoint = DInt(1)
    /\ self._Kp = DInt(1) /\ self._Ki = DInt(0) /\ self._Kd = DInt(0)

\* C5: with dt = 1, duration = 2, setpoint = 1, Kp = 1, Ki = Kd = 0 the
\* trace is t = [0,1], value = [0,1], error = [1,1], integral = [1,2], the
\* velocity is 1 after step 0 and 1.9 after step 1, and u = 1 at both steps.
C5_LiteralScenario ==
    (Simulated /\ Scenario) =>
        /\ self.raised = "none"
        /\ self._t = <<DInt(0), DInt(1)>>
        /\ self._values = <<DInt(0), DInt(1)>>
        /\ self._errors = <<DInt(1), DInt(1)>>
        /\ self._integrals = <<DInt(1), DInt(2)>>
        /\ Len(self.frames) = 2
        /\ self.frames[1].v = DInt(1)
        /\ self.frames[2].v = DFrac(19, 1)
        /\ self.frames[1].u = DInt(1)
        /\ self.frames[2].u = DInt(1)

C5_Witness == Simulated /\ Scenario /\ Len(self.frames) = 2

\* the time-change handler has just been called with the time op[2]
Looked == op[1] = "_on_time_change"

\* the sample the handler used: the text and the tangent show it and the
\* shaded area ends at it
UsedIndex == self._integral_area - 1

Floor(a) == -DCeil(DNeg(a))

Clamp(i, lo, hi) == IF i < lo THEN lo ELSE IF i > hi THEN hi ELSE i

\* C6: for every trace of length N >= 1 with step dt and every query time,
\* the handler uses the index clamp(floor(time / dt), 0, N-1), a valid
\* position of the trace.
C6_SampleLookup ==
    (Looked /\ ValidConfig /\ N >= 1) =>
        /\ self.raised = "none"
        /\ UsedIndex = Clamp(Floor(DDiv(op[2], dt)), 0, N - 1)
        /\ UsedIndex \in 0..(N - 1)
        /\ self._value_text.error = self._errors[UsedIndex + 1]

\* C6, what the program does: the lookup is as stated on every trace of two
\* samples or more, and fails with an IndexError on a trace of one.
C6_ProgramLookup ==
    (Looked /\ ValidConfig) =>
        IF N >= 2
        THEN /\ self.raised = "none"
             /\ UsedIndex = Clamp(Floor(DDiv(op[2], dt)), 0, N - 1)
             /\ self._value_text.error = self._errors[UsedIndex + 1]
             /\ self._time_marker = op[2]
        ELSE self.raised = "IndexError"

\* C7 as stated: the derivative of the control loop is zero on the first
\* step, so that u_0 = Kp*error_0 + Ki*integral_0.
C7_FirstDerivativeZero ==
    (Returned /\ ValidConfig /\ N >= 1) =>
        /\ self.frames[1].derivative = DInt(0)
        /\ self.frames[1].u =
               DAdd(DMul(self._Kp, self._errors[1]),
                    DMul(self._Ki, self._integrals[1]))

\* C7 as amended: the derivative of the control loop is the backward
\* difference (error_i - error_(i-1)) / dt at every step i >= 1 and is
\* setpoint / dt on the first step (the difference against a previous
\* error of 0), so that u_0 = Kp*error_0 + Ki*integral_0 + Kd*setpoint/dt.
C7_BackwardDifference ==
    (Returned /\ N >= 1) =>
        /\ self.frames[1].derivative = DDiv(self._setpoint, dt)
        /\ self.frames[1].u =
               DAdd(DAdd(DMul(self._Kp, self._errors[1]),
                         DMul(self._Ki, self._integrals[1])),
                    DMul(self._Kd, DDiv(self._setpoint, dt)))
        /\ \A i \in 2..N :
               self.frames[i].derivative =
                   DDiv(DSub(self._errors[i], self._errors[i - 1]), dt)

\* a run whose first derivative is not 0 and whose errors change
C7_Witness ==
    /\ Returned /\ ValidConfig /\ N >= 3
    /\ ~IsZero(self._Kd)
    /\ ~IsZero(self.frames[1].derivative)
    /\ ~IsZero(self.frames[3].derivative)

\* C8: value[i] is the position after step i and error[i] is computed from
\* the position before it: error[0] = setpoint, error[i+1] = setpoint -
\* value[i], value[0] = 0 and value[i] = value[i-1] + v*dt with v the
\* velocity from before step i.
C8_RecordingAsymmetry ==
    (Returned /\ N >= 1) =>
        /\ self._errors[1] = self._setpoint
        /\ self._values[1] = DInt(0)
        /\ \A i \in 1..(N - 1) :
               /\ self._errors[i + 1] = DSub(self._setpoint, self._values[i])
               /\ self._values[i + 1] =
                      DAdd(self._values[i], DMul(self.frames[i].v, dt))

\* a run in which the plant has moved
C8_Witness ==
    /\ Returned /\ ValidConfig /\ N >= 3
    /\ ~IsZero(self._values[2])
    /\ self._errors[3] # self._setpoint

\* error[1] + ... + error[i]
RECURSIVE ErrorSum(_)
ErrorSum(i) ==
    IF i = 0 THEN DInt(0) ELSE DAdd(ErrorSum(i - 1), self._errors[i])

FirstGains ==
    <<self._Kp, self._Ki, self._Kd>> = <<InitKp, InitKi, InitKd>>

\* C3: the simulation keeps no state from one call to the next: whenever
\* the trace has been computed for the gains, setpoint, duration and dt of
\* the first call, it is the trace of the first call, whatever simulations
\* with other gains, time changes, play commands and ticks came between.
C3_Deterministic ==
    FirstGains => Trace(self) = hist.first

\* the first gains again, after a simulation with other gains
C3_Witness ==
    /\ FirstGains
    /\ hist.other
    /\ op = <<"_update_plot">>
    /\ self._frame_idx > 0

Playing == self._is_playing

\* the playback position is before the last sample
BeforeEnd == self._frame_idx < Len(self._t) - 1

\* the time FrameStep samples after the time of the cursor
OneStepOn == DAdd(self._slider_time, DMul(DInt(FrameStep), dt))

\* the parts of C10 that do not say where a tick moves the query time: the
\* play state changes only by a play command (which toggles it) or by a
\* tick that finds Playing at or past the last sample (which stops it); a
\* tick while Stopped changes neither the play state, the frame index nor
\* the time cursor; a tick while Playing before the end keeps Playing.
PlaybackSteps ==
    /\ (self._is_playing' # self._is_playing) =>
           \/ op' = <<"_toggle_play">>
           \/ op' = <<"_animate">> /\ Playing /\ ~BeforeEnd
    /\ op' = <<"_toggle_play">> => self._is_playing' = ~self._is_playing
    /\ (op' = <<"_animate">> /\ Playing /\ ~BeforeEnd) => ~self._is_playing'
    /\ (op' = <<"_animate">> /\ ~Playing) =>
           /\ ~self._is_playing'
           /\ self._frame_idx' = self._frame_idx
           /\ self._slider_time' = self._slider_time
           /\ self._time_marker' = self._time_marker
    /\ (op' = <<"_animate">> /\ Playing /\ BeforeEnd) => self._is_playing'

\* C10 as stated: playback is the two-state machine above, and a tick while
\* Playing before the end advances the query time by one fixed step.
C10_TickAdvancesTime ==
    [][ /\ PlaybackSteps
        /\ (op' = <<"_animate">> /\ Playing /\ BeforeEnd) =>
               self._slider_time' = OneStepOn ]_vars

\* C10 as amended: playback is the two-state machine above, and a tick
\* while Playing before the end sets the query time to the time of the
\* sample at the frame index, t[frame_idx], and advances the frame index by
\* one fixed step.
C10_TickAdvancesFrame ==
    [][ /\ PlaybackSteps
        /\ (op' = <<"_animate">> /\ Playing /\ BeforeEnd) =>
               /\ self._slider_time' = self._t[self._frame_idx + 1]
               /\ self._time_marker' = self._t[self._frame_idx + 1]
               /\ self._frame_idx' = self._frame_idx + FrameStep ]_vars

\* two ticks have advanced the playback and it has not yet stopped
C10_Witness ==
    /\ op = <<"_animate">>
    /\ Playing
    /\ self._frame_idx = 2 * FrameStep
    /\ self._slider_time = self._t[FrameStep + 1]

\* C11: once Playing, if ticks keep occurring and no play or pause command
\* is issued, the playback is Stopped in the end, whatever gain and time
\* changes are interleaved.
C11_PlaybackTerminates == Playing ~> ~Playing

\* a tick has ended a playback during which the gains were changed
C11_Witness ==
    /\ hist.ended
    /\ hist.other
    /\ ~Playing
    /\ self._frame_idx = 0

\* the callbacks that only display: the time change, the play command and
\* the tick
Consumers == {"_on_time_change", "_toggle_play", "_animate"}

\* C12: a time change (with its central-difference derivative), a play or
\* pause command and a tick never modify the stored trace, the gains or the
\* setpoint and never run the simulation again; only a gain change
\* (_update_plot) replaces the trace.
C12_ReadOnlyConsumers ==
    [][ /\ op'[1] \in Consumers =>
               /\ Trace(self') = Trace(self)
               /\ self'._derivatives = self._derivatives
               /\ self'.frames = self.frames
               /\ self'._Kp = self._Kp
               /\ self'._Ki = self._Ki
               /\ self'._Kd = self._Kd
               /\ self'._setpoint = self._setpoint
               /\ ~self'.simulated
        /\ Trace(self') # Trace(self) => op' = <<"_update_plot">>
        /\ op' = <<"_update_plot">> => self'.simulated ]_vars

\* a tick has shown an inner sample of a trace computed for other gains:
\* the text and the tangent have their central differences
C12_Witness ==
    /\ op = <<"_animate">>
    /\ Playing
    /\ ~self.simulated
    /\ Trace(self) # hist.first
    /\ self._tangent_line # <<>>
    /\ ~IsZero(self._value_text.derivative)

\* the trace a new object computes for the gains the sliders show and the
\* setpoint of s
FromScratch(s) ==
    Trace(simulate_pid_response(
              Fields(s._setpoint, s._slider_kp, s._slider_ki, s._slider_kd),
              DefaultDuration, DefaultDt))

\* the stored trace and gains are those of the sliders
Consistent(s) ==
    /\ <<s._Kp, s._Ki, s._Kd>> = <<s._slider_kp, s._slider_ki, s._slider_kd>>
    /\ \A fresh \in {FromScratch(s)} : Trace(s) = fresh

\* C13: whenever a callback has finished, the stored trace is the trace the
\* simulation produces from scratch for the gains of the sliders and the
\* setpoint; and a gain change leaves the play state and the frame index
\* unchanged.
C13_TraceMatchesSliders ==
    /\ []Consistent(self)
    /\ [][ op' = <<"_update_plot">> =>
               /\ self'._is_playing = self._is_playing
               /\ self'._frame_idx = self._frame_idx ]_vars

\* a gain has been changed in the middle of a playback
C13_Witness ==
    /\ op = <<"_update_plot">>
    /\ Playing
    /\ self._frame_idx = FrameStep
    /\ self._slider_ki # InitKi
    /\ Trace(self) # hist.first

\* the last callback was a tick that read t[frame_idx] and moved on: the
\* only tick that leaves the playback Playing
TickRead == op = <<"_animate">> /\ Playing

\* the frame index that tick read the time at
ReadIndex == self._frame_idx - FrameStep

\* C14: in every reachable state the frame index is a non-negative multiple
\* of the tick step; whenever a tick reads t[frame_idx], 0 <= frame_idx <
\* N-1; and the index _update_data then uses is within 0..N-1.
C14_IndexInBounds ==
    /\ self._frame_idx >= 0
    /\ self._frame_idx % FrameStep = 0
    /\ self.raised = "none"
    /\ TickRead =>
           /\ ReadIndex >= 0
           /\ ReadIndex < Len(self._t) - 1
           /\ UsedIndex \in 0..(Len(self._t) - 1)
           /\ self._slider_time = self._t[ReadIndex + 1]

\* a tick has read the time of an inner sample, in a trace of other gains
C14_Witness ==
    /\ TickRead
    /\ ReadIndex = FrameStep
    /\ UsedIndex = FrameStep
    /\ hist.other

\* C15: a pause (and a play) command leaves the frame index unchanged, so
\* that a play after a pause resumes from the paused position; a tick that
\* stops the playback at the end of the trace sets the frame index to 0;
\* and the frame index is changed only by ticks while Playing, never by the
\* time slider, the gain sliders or the play button.
C15_PauseKeepsEndRewinds ==
    [][ /\ op' = <<"_toggle_play">> => self'._frame_idx = self._frame_idx
        /\ self'._frame_idx # self._frame_idx =>
               op' = <<"_animate">> /\ Playing
        /\ (op' = <<"_animate">> /\ Playing /\ ~BeforeEnd) =>
               self'._frame_idx = 0 /\ ~self'._is_playing
        /\ (op' = <<"_animate">> /\ Playing /\ BeforeEnd) =>
               self'._slider_time = self._t[self._frame_idx + 1] ]_vars

\* a play command has resumed a paused playback at its position
C15_Witness ==
    /\ op = <<"_toggle_play">>
    /\ Playing
    /\ self._frame_idx = FrameStep

\* a tick has stopped the playback at the end and rewound it
C15_Rewound == hist.ended /\ self._frame_idx = 0 /\ ~Playing

\* C16: whenever a callback has finished, the label of the play button is
\* 'Pause' exactly when the playback is Playing and 'Play' exactly when it
\* is Stopped, also after a tick has stopped it at the end of the trace.
C16_LabelMatchesState ==
    /\ self._btn_play \in {"Play", "Pause"}
    /\ self._btn_play = "Pause" <=> Playing
    /\ self._btn_play = "Play" <=> ~Playing

\* a tick has stopped the playback and the button reads 'Play' again
C16_Witness ==
    /\ hist.ended
    /\ op = <<"_animate">>
    /\ self._btn_play = "Play"

\* the button reads 'Pause' during a playback
C16_Pause == Playing /\ self._btn_play = "Pause" /\ self._frame_idx > 0

=============================================================================
